---- MODULE Spec2Model ----
(***************************************************************************)
(* The agentic tool-calling loop of src/mcp_client.py                      *)
(* (PlaywrightMCPClient.run_agent_loop) together with the try/finally      *)
(* session scope of its two callers (mcp_client.main and                   *)
(* get_social_links.get_container_selector_with_mcp).                      *)
(*                                                                         *)
(* One step of the model is the code that runs between two external calls  *)
(* (connect, list_tools, messages.create, call_tool, disconnect).  The     *)
(* CompletionProvider and the ToolCapabilityProvider are the environment:  *)
(* their answers are drawn from small sets.                                *)
(*                                                                         *)
(* Spec is one caller with one invocation of the loop; TwoSpec is two      *)
(* invocations of the loop on one client, interleaved by the event loop at *)
(* their awaits.                                                           *)
(***************************************************************************)
EXTENDS Integers, Sequences, FiniteSets, TLC

\* ------------------------------------------------------------------ bounds
\* The largest max_iterations a caller passes.
MaxIter == 2
\* The largest number of content blocks in one completion response.
MaxBlocks == 2
\* The largest max_iterations of the second of two interleaved invocations.
SecondMaxIter == 1

\* --------------------------------------------------------- program values
\* The string run_agent_loop returns after its while loop.
MaxIterationsError == "Error: Maximum iterations reached without completion"

\* Optional[...] values: None is the empty tuple, a value v is <<v>>.
None == <<>>
Some(v) == <<v>>

\* The caller's task prompt (user_message).
UserMessage == "find selector"

\* The structured-output tool of get_container_selector_with_mcp.
ReportSelectorTool ==
    [name |-> "report_selector",
     description |-> "Report the CSS selector for the social links container",
     input_schema |-> "selector_schema"]

\* ------------------------------------------------------------ environment
\* The tool records session.list_tools() answers with (description may be
\* absent).
McpTools ==
    << [name |-> "navigate", description |-> None, inputSchema |-> "navigate_schema"],
       [name |-> "get_selector", description |-> Some("Get a selector"),
        inputSchema |-> "get_selector_schema"] >>

\* Texts of the text blocks of a final (end_turn) response.
Texts == {"Done. ", MaxIterationsError}

\* The text the model puts before its tool requests.
Preamble == "I will use a tool. "

\* Tool inputs (JSON objects with one key) the model may send.
SelectorInput == [key |-> "selector", val |-> ".footer-social"]
UrlInput == [key |-> "url", val |-> "https://omar.house.gov/"]
Inputs == {SelectorInput, UrlInput}

\* Tool names the model may request, when the catalog it was sent offers them.
RequestedNames == {"navigate", "report_selector"}

\* The inputs the model sends a tool: navigate takes a url; the final answer
\* tool is sent either input (one with, one without the selector key).
InputsFor(name) == IF name = "navigate" THEN {UrlInput} ELSE Inputs

\* stop_reason values: tool_use, end_turn, and one that is neither.
StopReasons == {"tool_use", "end_turn", "max_tokens"}

NamesOf(catalog) == {catalog[k].name : k \in 1..Len(catalog)}

\* Content blocks as the CompletionProvider shapes them, before it stamps the
\* call-ids: a tool_use response mixes the preamble and requests for tools of
\* the catalog, any other response holds text blocks only.
BlockShapes(sr, catalog) ==
    IF sr = "tool_use"
    THEN {[type |-> "text", text |-> Preamble]}
         \cup UNION {{[type |-> "tool_use", name |-> n, input |-> i] :
                         i \in InputsFor(n)} :
                     n \in RequestedNames \cap NamesOf(catalog)}
    ELSE {[type |-> "text", text |-> t] : t \in Texts}

SeqsUpTo(S, n) == UNION {[1..k -> S] : k \in 0..n}

\* The provider gives every tool_use block of a response a call-id that no
\* other request has (ids are opaque; here base + position).
Stamp(shapes, base) ==
    [k \in 1..Len(shapes) |->
        IF shapes[k].type = "tool_use"
        THEN [type |-> "tool_use", id |-> base + k,
              name |-> shapes[k].name, input |-> shapes[k].input]
        ELSE shapes[k]]

HasToolUse(content) == \E k \in 1..Len(content) : content[k].type = "tool_use"

\* The responses messages.create can give to a request carrying catalog; a
\* tool_use response holds at least one tool_use block.
Responses(base, catalog) ==
    UNION {{[stop_reason |-> sr, content |-> Stamp(c, base)] :
               c \in {d \in SeqsUpTo(BlockShapes(sr, catalog), MaxBlocks) :
                         sr = "tool_use" => HasToolUse(d)}} :
           sr \in StopReasons}

\* What session.call_tool can return: a CallToolResult, whose content mixes
\* text items and a non-text item.
McpResults ==
    {[content |-> << [type |-> "text", text |-> "Page"],
                     [type |-> "image", data |-> "png"],
                     [type |-> "text", text |-> "loaded"] >>]}

\* Exceptions session.call_tool can raise (subclasses of Exception).
ToolExceptions == {"Connection closed"}

\* Exceptions of connect, list_tools and messages.create.
ConnectError == "connect failed"
ListToolsError == "list_tools failed"
CompletionError == "APIError"


\* ------------------------------------------------------------------ state
VARIABLES
    pc,                \* where the caller / run_agent_loop stands
    session,           \* self.session is set (connect succeeded; never reset)
    max_iterations,    \* argument of run_agent_loop
    final_answer_tool, \* argument of run_agent_loop: None or Some(tool)
    tools,             \* the catalog sent with every completion request
    messages,          \* the conversation history
    iteration,         \* the loop counter
    response,          \* the last completion response
    idx,               \* position of the for loop in response.content
    tool_results,      \* tool_result blocks of the current turn
    ret,               \* how run_agent_loop ended: return value or exception
    caller_ret,        \* what the caller returns
    nextId,            \* call-ids the CompletionProvider has handed out
    sent,              \* every completion request made: <<tools, messages>>
    calls,             \* every call_tool made, with how it came back
    listCalls,         \* number of session.list_tools() calls
    disconnects,       \* number of client.disconnect() calls
    other,             \* the frame of the suspended run_agent_loop invocation
    current            \* which invocation the event loop is running

vars == <<pc, session, max_iterations, final_answer_tool, tools, messages,
          iteration, response, idx, tool_results, ret, caller_ret, nextId,
          sent, calls, listCalls, disconnects, other, current>>

\* --------------------------------------------------------- pure functions
\* get_available_tools: one MCP tool record in Anthropic tool format.
ToAnthropicTool(tool) ==
    [name |-> tool.name,
     description |-> IF tool.description = None THEN "" ELSE tool.description[1],
     input_schema |-> tool.inputSchema]

\* get_available_tools: the converted list, in the server's order.
AnthropicTools(mcpTools) ==
    [k \in 1..Len(mcpTools) |-> ToAnthropicTool(mcpTools[k])]

\* Mutant of WithFinalAnswerTool: the final answer tool is inserted first.
WithFinalAnswerTool_First(ts, fat) ==
    IF fat # None THEN <<fat[1]>> \o ts ELSE ts

\* run_agent_loop: tools.append(final_answer_tool) when one is given.
WithFinalAnswerTool(ts, fat) ==
    IF fat # None THEN Append(ts, fat[1]) ELSE ts

\* "\n".join(parts)
RECURSIVE JoinLines(_)
JoinLines(parts) ==
    IF Len(parts) = 0 THEN ""
    ELSE IF Len(parts) = 1 THEN parts[1]
    ELSE parts[1] \o "\n" \o JoinLines(Tail(parts))

\* The text of every item that has a text attribute, in order.
RECURSIVE TextsOf(_)
TextsOf(items) ==
    IF Len(items) = 0 THEN <<>>
    ELSE IF "text" \in DOMAIN items[1]
         THEN <<items[1].text>> \o TextsOf(Tail(items))
         ELSE TextsOf(Tail(items))

\* run_agent_loop: the string a tool result is flattened to.
ResultStr(result) ==
    IF "content" \in DOMAIN result
    THEN JoinLines(TextsOf(result.content))
    ELSE result.repr

\* Mutant of FinalResponse: each text is put in front of the text so far.
RECURSIVE FinalResponse_Reversed(_)
FinalResponse_Reversed(content) ==
    IF Len(content) = 0 THEN ""
    ELSE IF "text" \in DOMAIN content[1]
         THEN FinalResponse_Reversed(Tail(content)) \o content[1].text
         ELSE FinalResponse_Reversed(Tail(content))

\* run_agent_loop, end_turn branch: final_response += block.text.
RECURSIVE FinalResponse(_)
FinalResponse(content) ==
    IF Len(content) = 0 THEN ""
    ELSE IF "text" \in DOMAIN content[1]
         THEN content[1].text \o FinalResponse(Tail(content))
         ELSE FinalResponse(Tail(content))

\* Python values run_agent_loop returns: a str or the tool_input dict.
StrValue(s) == [type |-> "str", value |-> s]
DictValue(d) == [type |-> "dict", value |-> d]

\* run_agent_loop: the value returned after the while loop (exhaustion, and
\* the break of the unexpected-stop_reason branch).
AfterLoopValue == StrValue(MaxIterationsError)

\* Mutant of IsFinalAnswer: the name is compared with the tool definition
\* itself, which never matches.
IsFinalAnswer_Never(block, fat) ==
    fat # None /\ block.name = "" /\ fat[1].name = ""

\* run_agent_loop: final_answer_tool and tool_name == final_answer_tool["name"]
IsFinalAnswer(block, fat) ==
    fat # None /\ block.name = fat[1].name

\* The index of the first tool_use block at or after i (Len + 1 when none):
\* the for loop skips every block whose type is not tool_use.
RECURSIVE NextToolUse(_, _)
NextToolUse(content, i) ==
    IF i > Len(content) THEN i
    ELSE IF content[i].type = "tool_use" THEN i
    ELSE NextToolUse(content, i + 1)

\* Mutant of ToolResultOk: the result is filed under the id of the turn's
\* first request instead of the id of the block being processed.
ToolResultOk_FirstId(block, result) ==
    [type |-> "tool_result",
     tool_use_id |-> response.content[NextToolUse(response.content, 1)].id,
     content |-> ResultStr(result)]

\* The tool_result block of a successful call.
ToolResultOk(block, result) ==
    [type |-> "tool_result", tool_use_id |-> block.id, content |-> ResultStr(result)]

\* Mutant of ToolResultError: the is_error flag is left out.
ToolResultError_NoFlag(block, e) ==
    [type |-> "tool_result", tool_use_id |-> block.id,
     content |-> "Error: " \o e]

\* The tool_result block of a call that raised.
ToolResultError(block, e) ==
    [type |-> "tool_result", tool_use_id |-> block.id,
     content |-> "Error: " \o e, is_error |-> TRUE]

\* Mutant of SelectorOf: the "selector" in response test is missing and the
\* value of whatever key the dict holds is returned.
SelectorOf_AnyDict(resp) ==
    IF resp.type = "dict"
    THEN Some(resp.value.val)
    ELSE None

\* get_container_selector_with_mcp: the selector of a structured response,
\* else None.
SelectorOf(resp) ==
    IF resp.type = "dict" /\ resp.value.key = "selector"
    THEN Some(resp.value.val)
    ELSE None

\* ---------------------------------------------------------- initial state
NoResponse == [stop_reason |-> "", content |-> <<>>]
NotEnded == [kind |-> "none"]
Returned(v) == [kind |-> "return", value |-> v]
Raised(e) == [kind |-> "raise", exc |-> e]

\* The client has been created; the caller is about to enter its try block.
\* No second invocation of run_agent_loop exists.
NoInvocation == [pc |-> "none"]

Init ==
    /\ pc = "created"
    /\ session = FALSE
    /\ max_iterations \in 1..MaxIter
    /\ final_answer_tool \in {None, Some(ReportSelectorTool)}
    /\ tools = <<>>
    /\ messages = <<>>
    /\ iteration = 0
    /\ response = NoResponse
    /\ idx = 0
    /\ tool_results = <<>>
    /\ ret = NotEnded
    /\ caller_ret = None
    /\ nextId = 0
    /\ sent = <<>>
    /\ calls = <<>>
    /\ listCalls = 0
    /\ disconnects = 0
    /\ other = NoInvocation
    /\ current = 1


\* ---------------------------------------------------------------- actions
\* Mutant of Connect: connect is awaited before the try block, so a failure
\* leaves the caller without running the finally clause.
Connect_OutsideTry ==
    /\ pc = "created"
    /\ \/ /\ session' = TRUE
          /\ pc' = "connected"
          /\ ret' = ret
       \/ /\ session' = FALSE
          /\ ret' = Raised(ConnectError)
          /\ pc' = "done"
    /\ UNCHANGED <<max_iterations, final_answer_tool, tools, messages,
                   iteration, response, idx, tool_results, caller_ret, nextId,
                   sent, calls, listCalls, disconnects>>
    /\ UNCHANGED <<other, current>>

\* Caller, try block: await client.connect().  On failure the exception
\* leaves the try block and the finally clause runs.
Connect ==
    /\ pc = "created"
    /\ \/ /\ session' = TRUE
          /\ pc' = "connected"
          /\ ret' = ret
       \/ /\ session' = FALSE
          /\ ret' = Raised(ConnectError)
          /\ pc' = "finally"
    /\ UNCHANGED <<max_iterations, final_answer_tool, tools, messages,
                   iteration, response, idx, tool_results, caller_ret, nextId,
                   sent, calls, listCalls, disconnects>>
    /\ UNCHANGED <<other, current>>

\* run_agent_loop up to its while loop: get_available_tools (one list_tools
\* call, which may raise), the final answer tool appended, the history
\* started with the user message, iteration = 0.
StartLoop ==
    /\ pc = "connected"
    /\ listCalls' = listCalls + 1
    /\ \/ /\ tools' = WithFinalAnswerTool(AnthropicTools(McpTools), final_answer_tool)
          /\ messages' = <<[role |-> "user", content |-> UserMessage]>>
          /\ iteration' = 0
          /\ pc' = "loop"
          /\ ret' = ret
       \/ /\ ret' = Raised(ListToolsError)
          /\ pc' = "finally"
          /\ UNCHANGED <<tools, messages, iteration>>
    /\ UNCHANGED <<session, max_iterations, final_answer_tool, response, idx,
                   tool_results, caller_ret, nextId, sent, calls, disconnects>>
    /\ UNCHANGED <<other, current>>

\* Mutant of SendCompletion: only the newest message is sent, not the history.
SendCompletion_LastOnly ==
    /\ pc = "loop"
    /\ iteration < max_iterations
    /\ iteration' = iteration + 1
    /\ sent' = Append(sent, [tools |-> tools,
                             messages |-> <<messages[Len(messages)]>>])
    /\ pc' = "await_completion"
    /\ UNCHANGED <<session, max_iterations, final_answer_tool, tools, messages,
                   response, idx, tool_results, ret, caller_ret, nextId, calls,
                   listCalls, disconnects>>
    /\ UNCHANGED <<other, current>>

\* Mutant of SendCompletion: iteration += 1 is missing.
SendCompletion_NoIncrement ==
    /\ pc = "loop"
    /\ iteration < max_iterations
    /\ iteration' = iteration
    /\ sent' = Append(sent, [tools |-> tools, messages |-> messages])
    /\ pc' = "await_completion"
    /\ UNCHANGED <<session, max_iterations, final_answer_tool, tools, messages,
                   response, idx, tool_results, ret, caller_ret, nextId, calls,
                   listCalls, disconnects>>
    /\ UNCHANGED <<other, current>>

\* Mutant of SendCompletion: the loop condition is iteration <= max_iterations.
SendCompletion_OffByOne ==
    /\ pc = "loop"
    /\ iteration <= max_iterations
    /\ iteration' = iteration + 1
    /\ sent' = Append(sent, [tools |-> tools, messages |-> messages])
    /\ pc' = "await_completion"
    /\ UNCHANGED <<session, max_iterations, final_answer_tool, tools, messages,
                   response, idx, tool_results, ret, caller_ret, nextId, calls,
                   listCalls, disconnects>>
    /\ UNCHANGED <<other, current>>

\* while iteration < max_iterations: iteration += 1 and messages.create is
\* called with the catalog and the history.
SendCompletion ==
    /\ pc = "loop"
    /\ iteration < max_iterations
    /\ iteration' = iteration + 1
    /\ sent' = Append(sent, [tools |-> tools, messages |-> messages])
    /\ pc' = "await_completion"
    /\ UNCHANGED <<session, max_iterations, final_answer_tool, tools, messages,
                   response, idx, tool_results, ret, caller_ret, nextId, calls,
                   listCalls, disconnects>>
    /\ UNCHANGED <<other, current>>

\* The while condition is false: the code after the loop returns.
Exhausted ==
    /\ pc = "loop"
    /\ ~(iteration < max_iterations)
    /\ ret' = Returned(AfterLoopValue)
    /\ pc' = "returned"
    /\ UNCHANGED <<session, max_iterations, final_answer_tool, tools, messages,
                   iteration, response, idx, tool_results, caller_ret, nextId,
                   sent, calls, listCalls, disconnects>>
    /\ UNCHANGED <<other, current>>

\* Mutant of ToolUseResponse: the response content is appended as a user
\* message.
ToolUseResponse_AsUser(r) ==
    /\ r.stop_reason = "tool_use"
    /\ messages' = Append(messages, [role |-> "user", content |-> r.content])
    /\ tool_results' = <<>>
    /\ idx' = 1
    /\ pc' = "blocks"
    /\ ret' = ret

\* messages.create returns with stop_reason tool_use: the assistant message is
\* appended and the for loop over the content starts with no results.
ToolUseResponse(r) ==
    /\ r.stop_reason = "tool_use"
    /\ messages' = Append(messages, [role |-> "assistant", content |-> r.content])
    /\ tool_results' = <<>>
    /\ idx' = 1
    /\ pc' = "blocks"
    /\ ret' = ret

\* messages.create returns with stop_reason end_turn: the text is returned.
EndTurnResponse(r) ==
    /\ r.stop_reason = "end_turn"
    /\ ret' = Returned(StrValue(FinalResponse(r.content)))
    /\ pc' = "returned"
    /\ UNCHANGED <<messages, tool_results, idx>>

\* messages.create returns with any other stop_reason: break, and the code
\* after the loop returns.
UnexpectedResponse(r) ==
    /\ r.stop_reason \notin {"tool_use", "end_turn"}
    /\ ret' = Returned(AfterLoopValue)
    /\ pc' = "returned"
    /\ UNCHANGED <<messages, tool_results, idx>>

\* The completion call returns a response.
CompletionReturns ==
    /\ pc = "await_completion"
    /\ \E r \in Responses(nextId, tools) :
          /\ response' = r
          /\ nextId' = nextId + Len(r.content)
          /\ \/ ToolUseResponse(r)
             \/ EndTurnResponse(r)
             \/ UnexpectedResponse(r)
    /\ UNCHANGED <<session, max_iterations, final_answer_tool, tools, iteration,
                   caller_ret, sent, calls, listCalls, disconnects>>
    /\ UNCHANGED <<other, current>>

\* The completion call raises: nothing in run_agent_loop catches it.
CompletionRaises ==
    /\ pc = "await_completion"
    /\ ret' = Raised(CompletionError)
    /\ pc' = "finally"
    /\ UNCHANGED <<session, max_iterations, final_answer_tool, tools, messages,
                   iteration, response, idx, tool_results, caller_ret, nextId,
                   sent, calls, listCalls, disconnects>>
    /\ UNCHANGED <<other, current>>

\* Mutant of AppendToolResults: the results message is appended with the
\* assistant role.
AppendToolResults_AsAssistant(j) ==
    /\ j > Len(response.content)
    /\ messages' = Append(messages, [role |-> "assistant", content |-> tool_results])
    /\ idx' = j
    /\ pc' = "loop"
    /\ UNCHANGED <<ret, calls>>

\* The for loop has passed the last block: the user message with the turn's
\* tool results is appended and the while loop goes round.
AppendToolResults(j) ==
    /\ j > Len(response.content)
    /\ messages' = Append(messages, [role |-> "user", content |-> tool_results])
    /\ idx' = j
    /\ pc' = "loop"
    /\ UNCHANGED <<ret, calls>>

\* Mutant of ReturnFinalAnswer: the for loop runs on and the last final
\* answer request of the turn wins.
ReturnFinalAnswer_Last(j) ==
    /\ j <= Len(response.content)
    /\ IsFinalAnswer(response.content[j], final_answer_tool)
    /\ LET finals == {m \in j..Len(response.content) :
                         /\ response.content[m].type = "tool_use"
                         /\ IsFinalAnswer(response.content[m], final_answer_tool)}
           last == CHOOSE m \in finals : \A n \in finals : n <= m
       IN  ret' = Returned(DictValue(response.content[last].input))
    /\ idx' = j
    /\ pc' = "returned"
    /\ UNCHANGED <<messages, calls>>

\* Mutant of ReturnFinalAnswer: the results gathered so far are appended to
\* the history before the return.
ReturnFinalAnswer_AppendsResults(j) ==
    /\ j <= Len(response.content)
    /\ IsFinalAnswer(response.content[j], final_answer_tool)
    /\ ret' = Returned(DictValue(response.content[j].input))
    /\ messages' = Append(messages, [role |-> "user", content |-> tool_results])
    /\ idx' = j
    /\ pc' = "returned"
    /\ UNCHANGED calls

\* The next tool_use block names the final answer tool: its input is returned.
ReturnFinalAnswer(j) ==
    /\ j <= Len(response.content)
    /\ IsFinalAnswer(response.content[j], final_answer_tool)
    /\ ret' = Returned(DictValue(response.content[j].input))
    /\ idx' = j
    /\ pc' = "returned"
    /\ UNCHANGED <<messages, calls>>

\* Mutant of DispatchTool: the call is started as a task and not awaited; the
\* for loop goes on to the next block.
DispatchTool_NoAwait(j) ==
    /\ j <= Len(response.content)
    /\ ~IsFinalAnswer(response.content[j], final_answer_tool)
    /\ calls' = Append(calls, [name |-> response.content[j].name,
                              input |-> response.content[j].input,
                              block |-> j,
                              turn |-> iteration,
                              outcome |-> "pending"])
    /\ idx' = j + 1
    /\ pc' = "blocks"
    /\ UNCHANGED <<messages, ret>>

\* The next tool_use block names another tool: call_tool is awaited.
DispatchTool(j) ==
    /\ j <= Len(response.content)
    /\ ~IsFinalAnswer(response.content[j], final_answer_tool)
    /\ calls' = Append(calls, [name |-> response.content[j].name,
                              input |-> response.content[j].input,
                              block |-> j,
                              turn |-> iteration,
                              outcome |-> "pending"])
    /\ idx' = j
    /\ pc' = "await_tool"
    /\ UNCHANGED <<messages, ret>>

\* The for loop runs on to its next tool_use block, or to its end.
ProcessBlocks ==
    /\ pc = "blocks"
    /\ LET j == NextToolUse(response.content, idx) IN
          \/ AppendToolResults(j)
          \/ ReturnFinalAnswer(j)
          \/ DispatchTool(j)
    /\ UNCHANGED <<session, max_iterations, final_answer_tool, tools, iteration,
                   response, tool_results, caller_ret, nextId, sent, listCalls,
                   disconnects>>
    /\ UNCHANGED <<other, current>>

\* call_tool returns: the flattened result is recorded under the block's id.
ToolReturns ==
    /\ pc = "await_tool"
    /\ \E result \in McpResults :
          tool_results' = Append(tool_results,
                                 ToolResultOk(response.content[idx], result))
    /\ calls' = [calls EXCEPT ![Len(calls)].outcome = "returned"]
    /\ idx' = idx + 1
    /\ pc' = "blocks"
    /\ UNCHANGED <<session, max_iterations, final_answer_tool, tools, messages,
                   iteration, response, ret, caller_ret, nextId, sent,
                   listCalls, disconnects>>
    /\ UNCHANGED <<other, current>>

\* Mutant of ToolRaises: the exception is swallowed and no result is recorded.
ToolRaises_Swallowed ==
    /\ pc = "await_tool"
    /\ tool_results' = tool_results
    /\ calls' = [calls EXCEPT ![Len(calls)].outcome = "raised"]
    /\ idx' = idx + 1
    /\ pc' = "blocks"
    /\ UNCHANGED <<session, max_iterations, final_answer_tool, tools, messages,
                   iteration, response, ret, caller_ret, nextId, sent,
                   listCalls, disconnects>>
    /\ UNCHANGED <<other, current>>

\* call_tool raises: except Exception records an error result and the for
\* loop goes on.
ToolRaises ==
    /\ pc = "await_tool"
    /\ \E e \in ToolExceptions :
          tool_results' = Append(tool_results,
                                 ToolResultError(response.content[idx], e))
    /\ calls' = [calls EXCEPT ![Len(calls)].outcome = "raised"]
    /\ idx' = idx + 1
    /\ pc' = "blocks"
    /\ UNCHANGED <<session, max_iterations, final_answer_tool, tools, messages,
                   iteration, response, ret, caller_ret, nextId, sent,
                   listCalls, disconnects>>
    /\ UNCHANGED <<other, current>>

\* The caller takes run_agent_loop's return value:
\* get_container_selector_with_mcp (which passes a final answer tool) returns
\* the selector or None, main prints the response and returns None.
HandleResponse ==
    /\ pc = "returned"
    /\ caller_ret' = IF final_answer_tool # None
                     THEN SelectorOf(ret.value)
                     ELSE None
    /\ pc' = "finally"
    /\ UNCHANGED <<session, max_iterations, final_answer_tool, tools, messages,
                   iteration, response, idx, tool_results, ret, nextId, sent,
                   calls, listCalls, disconnects>>
    /\ UNCHANGED <<other, current>>

\* finally: await client.disconnect().
Disconnect ==
    /\ pc = "finally"
    /\ disconnects' = disconnects + 1
    /\ pc' = "done"
    /\ UNCHANGED <<session, max_iterations, final_answer_tool, tools, messages,
                   iteration, response, idx, tool_results, ret, caller_ret,
                   nextId, sent, calls, listCalls>>
    /\ UNCHANGED <<other, current>>

Next ==
    \/ Connect
    \/ StartLoop
    \/ SendCompletion
    \/ Exhausted
    \/ CompletionReturns
    \/ CompletionRaises
    \/ ProcessBlocks
    \/ ToolReturns
    \/ ToolRaises
    \/ HandleResponse
    \/ Disconnect

Spec == Init /\ [][Next]_vars

\* The caller's coroutine is scheduled until it ends, and every external
\* call comes back (returns or raises).
FairSpec == Spec /\ WF_vars(Next)


\* ------------------------------------ two invocations on one event loop
\* The frame of the running invocation: the arguments and locals of
\* run_agent_loop, with the requests and calls it has made.
Frame ==
    [pc |-> pc,
     max_iterations |-> max_iterations,
     final_answer_tool |-> final_answer_tool,
     tools |-> tools,
     messages |-> messages,
     iteration |-> iteration,
     response |-> response,
     idx |-> idx,
     tool_results |-> tool_results,
     ret |-> ret,
     sent |-> sent,
     calls |-> calls,
     listCalls |-> listCalls]

\* The frame of an invocation that has been called and has not run yet.
NewFrame(n, fat) ==
    [pc |-> "connected",
     max_iterations |-> n,
     final_answer_tool |-> fat,
     tools |-> <<>>,
     messages |-> <<>>,
     iteration |-> 0,
     response |-> NoResponse,
     idx |-> 0,
     tool_results |-> <<>>,
     ret |-> NotEnded,
     sent |-> <<>>,
     calls |-> <<>>,
     listCalls |-> 0]

\* Where run_agent_loop awaits: get_available_tools and call_tool
\* (messages.create is a blocking call and yields to nobody).
SuspensionPoints == {"connected", "await_tool"}

\* Two invocations of run_agent_loop on one connected client, the first about
\* to run and the second, a run of at most SecondMaxIter requests, waiting for
\* its turn.
InitTwo ==
    /\ pc = "connected"
    /\ session = TRUE
    /\ max_iterations \in 1..MaxIter
    /\ final_answer_tool \in {None, Some(ReportSelectorTool)}
    /\ tools = <<>>
    /\ messages = <<>>
    /\ iteration = 0
    /\ response = NoResponse
    /\ idx = 0
    /\ tool_results = <<>>
    /\ ret = NotEnded
    /\ caller_ret = None
    /\ nextId = 0
    /\ sent = <<>>
    /\ calls = <<>>
    /\ listCalls = 0
    /\ disconnects = 0
    /\ other \in {NewFrame(n, fat) : n \in 1..SecondMaxIter,
                                    fat \in {None, Some(ReportSelectorTool)}}
    /\ current = 1

\* Mutant of Switch: the history is an attribute of the client, shared by
\* the invocations, and is not part of the frame that is switched.
Switch_SharedHistory ==
    /\ pc \in SuspensionPoints \cup {"returned", "finally"}
    /\ other.pc \in SuspensionPoints
    /\ other' = Frame
    /\ pc' = other.pc
    /\ max_iterations' = other.max_iterations
    /\ final_answer_tool' = other.final_answer_tool
    /\ tools' = other.tools
    /\ messages' = messages
    /\ iteration' = other.iteration
    /\ response' = other.response
    /\ idx' = other.idx
    /\ tool_results' = other.tool_results
    /\ ret' = other.ret
    /\ sent' = other.sent
    /\ calls' = other.calls
    /\ listCalls' = other.listCalls
    /\ current' = 3 - current
    /\ UNCHANGED <<session, caller_ret, nextId, disconnects>>

\* The event loop leaves the running invocation at an await (or at its end)
\* and resumes the suspended one: each coroutine keeps its own arguments and
\* locals; the client and the providers are shared.
Switch ==
    /\ pc \in SuspensionPoints \cup {"returned", "finally"}
    /\ other.pc \in SuspensionPoints
    /\ other' = Frame
    /\ pc' = other.pc
    /\ max_iterations' = other.max_iterations
    /\ final_answer_tool' = other.final_answer_tool
    /\ tools' = other.tools
    /\ messages' = other.messages
    /\ iteration' = other.iteration
    /\ response' = other.response
    /\ idx' = other.idx
    /\ tool_results' = other.tool_results
    /\ ret' = other.ret
    /\ sent' = other.sent
    /\ calls' = other.calls
    /\ listCalls' = other.listCalls
    /\ current' = 3 - current
    /\ UNCHANGED <<session, caller_ret, nextId, disconnects>>

NextTwo ==
    \/ StartLoop
    \/ SendCompletion
    \/ Exhausted
    \/ CompletionReturns
    \/ CompletionRaises
    \/ ProcessBlocks
    \/ ToolReturns
    \/ ToolRaises
    \/ Switch

TwoSpec == InitTwo /\ [][NextTwo]_vars


\* ------------------------------------------------- vocabulary of the claims
\* run_agent_loop has ended (returned or raised).
Ended == pc \in {"returned", "finally", "done"}

\* The loop is inside the for loop of a tool_use turn.
InTurn == pc \in {"blocks", "await_tool"}

IsToolUse(block) == block.type = "tool_use"

\* The tool_use positions of a content sequence.
ToolUses(content) == {j \in 1..Len(content) : IsToolUse(content[j])}

\* A request for the registered final answer tool.
IsFinalRequest(block) ==
    /\ IsToolUse(block)
    /\ final_answer_tool # None
    /\ block.name = final_answer_tool[1].name

FinalRequests(content) == {j \in 1..Len(content) : IsFinalRequest(content[j])}

Min(S) == CHOOSE x \in S : \A y \in S : x <= y

\* The assistant message of turn t (every earlier turn was a tool_use turn,
\* which appended one assistant and one user message).
AssistantOf(t) == messages[2 * t]

\* Turns whose response was a tool_use response.
ToolTurns == {t \in 1..iteration : Len(messages) >= 2 * t}

\* The calls made for block j of turn t.
CallsFor(t, j) == {i \in 1..Len(calls) : calls[i].turn = t /\ calls[i].block = j}

\* The model has answered every request so far with a tool_use response that
\* names no final answer tool.
OnlyNonFinalToolUse ==
    /\ response.stop_reason \in {"", "tool_use"}
    /\ \A t \in ToolTurns : FinalRequests(AssistantOf(t).content) = {}

\* --------------------------------------------------------------------- C1
RequestsWithId(content, id) ==
    {j \in ToolUses(content) : content[j].id = id}

ResultsWithId(results, id) ==
    {i \in 1..Len(results) : results[i].tool_use_id = id}

\* Every result answers exactly one request of content, and no request of
\* content has two results.
Paired(content, results) ==
    /\ \A i \in 1..Len(results) :
          Cardinality(RequestsWithId(content, results[i].tool_use_id)) = 1
    /\ \A j \in ToolUses(content) :
          Cardinality(ResultsWithId(results, content[j].id)) <= 1

\* C1: in every history, every tool_result of a user message carries the
\* call-id of exactly one request of the assistant message right before it,
\* no request has two results, and the same holds of the results gathered so
\* far in the running turn (so no orphaned result is ever appended).
C1_ResultsMatchRequests ==
    /\ \A k \in 2..Len(messages) :
          messages[k].role = "user" =>
             /\ messages[k - 1].role = "assistant"
             /\ Paired(messages[k - 1].content, messages[k].content)
    /\ InTurn => Paired(messages[Len(messages)].content, tool_results)

\* A history whose results message answers two requests of one turn.
C1_Witness ==
    \E k \in 2..Len(messages) :
       /\ messages[k].role = "user"
       /\ Len(messages[k].content) = 2
       /\ Cardinality(ToolUses(messages[k - 1].content)) = 2

\* --------------------------------------------------------------------- C2
\* C2: there are never more than max_iterations completion calls, and when the
\* model has only ever answered with tool_use responses naming non-final
\* tools, a run that returns has made exactly max_iterations completion calls
\* and one call_tool per requested tool of every turn (for that tool, with
\* its input), and its result is the iteration-exhaustion error value.
C2_ExactlyNCompletions ==
    /\ Len(sent) <= max_iterations
    /\ (ret.kind = "return" /\ OnlyNonFinalToolUse) =>
          /\ Len(sent) = max_iterations
          /\ ret.value = StrValue(MaxIterationsError)
          /\ ToolTurns = 1..max_iterations
          /\ \A t \in ToolTurns : \A j \in ToolUses(AssistantOf(t).content) :
                /\ Cardinality(CallsFor(t, j)) = 1
                /\ \A i \in CallsFor(t, j) :
                      /\ calls[i].name = AssistantOf(t).content[j].name
                      /\ calls[i].input = AssistantOf(t).content[j].input
          /\ \A i \in 1..Len(calls) :
                calls[i].block \in ToolUses(AssistantOf(calls[i].turn).content)

\* The budget is exhausted after the largest number of turns, one of them with
\* two requests.
C2_Witness ==
    /\ pc = "done"
    /\ ret.kind = "return"
    /\ OnlyNonFinalToolUse
    /\ max_iterations = MaxIter
    /\ Len(sent) = MaxIter
    /\ Len(calls) > MaxIter

\* --------------------------------------------------------------------- C3
\* The first response is a tool_use response that requests the registered
\* final answer tool.
FirstResponseIsFinalAnswer ==
    /\ Len(messages) >= 2
    /\ FinalRequests(messages[2].content) # {}

\* C3: when the first response requests the registered final answer tool, the
\* loop processes no block beyond that request, never calls call_tool for it,
\* sends no result back and makes no second completion call, and once it has
\* ended it has returned that request's input, unchanged.
C3_FinalAnswerFirst ==
    FirstResponseIsFinalAnswer =>
       LET f == Min(FinalRequests(messages[2].content)) IN
          /\ CallsFor(1, f) = {}
          /\ \A i \in 1..Len(calls) : calls[i].name # final_answer_tool[1].name
          /\ idx <= f
          /\ Len(messages) = 2
          /\ Len(sent) = 1
          /\ pc \in {"blocks", "await_tool", "returned", "finally", "done"}
          /\ Ended => ret = Returned(DictValue(messages[2].content[f].input))

\* The run is over after a first response that requested the final answer.
C3_Witness ==
    /\ FirstResponseIsFinalAnswer
    /\ pc = "done"
    /\ ret.kind = "return"
    /\ ret.value.type = "dict"

\* --------------------------------------------------------------------- C4
\* The texts of the first n blocks, joined left to right.
RECURSIVE TextUpTo(_, _)
TextUpTo(content, n) ==
    IF n = 0 THEN ""
    ELSE TextUpTo(content, n - 1)
         \o (IF content[n].type = "text" THEN content[n].text ELSE "")

\* The first response came back with stop_reason end_turn.
FirstResponseIsEndTurn ==
    /\ response.stop_reason = "end_turn"
    /\ Len(sent) = 1

\* C4: when the first response has stop_reason end_turn, run_agent_loop has
\* returned the texts of its text blocks joined in order, no call_tool was
\* made, and no second completion call is made.
C4_EndTurnFirst ==
    /\ (response.stop_reason = "end_turn" /\ Len(messages) = 1) => Len(sent) = 1
    /\ FirstResponseIsEndTurn =>
          /\ Ended
          /\ ret = Returned(StrValue(TextUpTo(response.content, Len(response.content))))
          /\ calls = <<>>
          /\ Len(messages) = 1

\* A first end_turn response with two different text blocks was returned.
C4_Witness ==
    /\ FirstResponseIsEndTurn
    /\ pc = "done"
    /\ Len(response.content) = 2
    /\ response.content[1].text # response.content[2].text


\* --------------------------------------------------------------------- C5
\* The calls that raised.
RaisedCalls == {i \in 1..Len(calls) : calls[i].outcome = "raised"}

\* The call-id of the request call i was made for.
IdOfCall(i) == AssistantOf(calls[i].turn).content[calls[i].block].id

\* results holds an error-flagged tool_result for id.
ErrorResultFor(results, id) ==
    \E r \in 1..Len(results) :
       /\ results[r].tool_use_id = id
       /\ "is_error" \in DOMAIN results[r]
       /\ results[r].is_error

\* Turn t's for loop is still running.
TurnRunning(t) == InTurn /\ iteration = t

\* Turn t ended with the return of a final answer.
TurnEndedByFinalAnswer(t) ==
    /\ iteration = t
    /\ ret.kind = "return"
    /\ ret.value.type = "dict"

\* The error result of raised call i is in the results message of its turn.
ErrorResultInHistory(i) ==
    LET t == calls[i].turn IN
       /\ Len(messages) >= 2 * t + 1
       /\ messages[2 * t + 1].role = "user"
       /\ ErrorResultFor(messages[2 * t + 1].content, IdOfCall(i))

\* The completion request after raised call i's turn, when one was made, was
\* sent the history with its error result.
ErrorResultSent(i) ==
    LET t == calls[i].turn IN
       Len(sent) > t =>
          /\ Len(sent[t + 1].messages) = 2 * t + 1
          /\ ErrorResultFor(sent[t + 1].messages[2 * t + 1].content, IdOfCall(i))

\* C5 as stated: a call_tool that raises never ends run_agent_loop with an
\* exception, and once its turn is over an error-flagged tool_result with the
\* request's call-id is in the user message appended to the history, which
\* the next completion request is sent with.
C5_AsStated ==
    /\ ret.kind = "raise" => ret.exc \notin ToolExceptions
    /\ \A i \in RaisedCalls :
          /\ TurnRunning(calls[i].turn) => ErrorResultFor(tool_results, IdOfCall(i))
          /\ ~TurnRunning(calls[i].turn) => ErrorResultInHistory(i)
          /\ ErrorResultSent(i)

\* C5 amended: the same, except in a turn that ends with the return of a
\* final answer, where the loop returns that request's input and the turn's
\* results (the error result among them) are not appended.
C5_ToolFailureIsData ==
    /\ ret.kind = "raise" => ret.exc \notin ToolExceptions
    /\ \A i \in RaisedCalls :
          /\ TurnRunning(calls[i].turn) => ErrorResultFor(tool_results, IdOfCall(i))
          /\ (~TurnRunning(calls[i].turn) /\ ~TurnEndedByFinalAnswer(calls[i].turn))
                => ErrorResultInHistory(i)
          /\ TurnEndedByFinalAnswer(calls[i].turn) =>
                /\ Len(messages) = 2 * calls[i].turn
                /\ ErrorResultFor(tool_results, IdOfCall(i))
          /\ ErrorResultSent(i)

\* A call raised, and the next completion request was made.
C5_Witness ==
    \E i \in RaisedCalls :
       /\ Len(sent) > calls[i].turn
       /\ ErrorResultInHistory(i)

\* --------------------------------------------------------------------- C6
\* The loop ended on a stop_reason that is neither tool_use nor end_turn.
EndedOnUnexpectedStopReason ==
    /\ ret.kind = "return"
    /\ response.stop_reason \notin {"", "tool_use", "end_turn"}

\* C6 as stated: the value returned on an unrecognized stop_reason differs
\* from the iteration-exhaustion value (and from an empty result).
C6_AsStated ==
    EndedOnUnexpectedStopReason =>
       /\ ret.value # StrValue(MaxIterationsError)
       /\ ret.value # StrValue("")

\* --------------------------------------------------------------------- C7
\* C7 as stated: a failure of connect or of list_tools ends the invocation
\* with that exception and no completion call, and so does a call_tool that
\* raises because the connection dropped: no further completion call is made
\* and no tool_result is made of the failure.
C7_AsStated ==
    /\ (pc \notin {"created", "connected"} /\ listCalls = 0) =>
          (ret = Raised(ConnectError) /\ sent = <<>>)
    /\ (listCalls = 1 /\ tools = <<>>) =>
          (ret = Raised(ListToolsError) /\ sent = <<>>)
    /\ \A i \in RaisedCalls :
          /\ ret.kind = "raise"
          /\ Len(sent) = calls[i].turn
          /\ ~ErrorResultFor(tool_results, IdOfCall(i))

\* --------------------------------------------------------------------- C8
\* C8: on every path from the creation of the client, disconnect is called,
\* once, as the caller's last step: it is never called twice, the caller is
\* done exactly when it has been called, and every run ends there.
C8_SessionReleased ==
    /\ [](disconnects <= 1 /\ (pc = "done" <=> disconnects = 1))
    /\ <>[](pc = "done" /\ disconnects = 1)

\* The caller is done after an exception left its try block.
C8_Witness ==
    /\ pc = "done"
    /\ disconnects = 1
    /\ ret = Raised(CompletionError)

\* --------------------------------------------------------------------- C9
\* Turns whose assistant message requests the final answer tool.
FinalTurns == {t \in ToolTurns : FinalRequests(AssistantOf(t).content) # {}}

FirstFinal(t) == Min(FinalRequests(AssistantOf(t).content))

\* C9 as stated: in a turn with a final answer request the loop returns the
\* first such request's input and dispatches none of the turn's requests.
C9_AsStated ==
    \A t \in FinalTurns :
       /\ \A i \in 1..Len(calls) : calls[i].turn # t
       /\ Ended => ret = Returned(DictValue(AssistantOf(t).content[FirstFinal(t)].input))

\* C9 amended: in a turn with a final answer request the loop returns the
\* first such request's input; no request at or after it is dispatched, and
\* each request before it has been dispatched once when the loop returns; no
\* results message is appended.
C9_FinalAnswerShortCircuit ==
    \A t \in FinalTurns :
       LET content == AssistantOf(t).content
           f == FirstFinal(t)
       IN  /\ \A i \in 1..Len(calls) : calls[i].turn = t => calls[i].block < f
           /\ iteration = t
           /\ Len(messages) = 2 * t
           /\ Ended =>
                 /\ ret = Returned(DictValue(content[f].input))
                 /\ \A j \in ToolUses(content) :
                       j < f => Cardinality(CallsFor(t, j)) = 1

\* A turn whose second request is the final answer has ended: the first
\* request was dispatched.
C9_Witness ==
    \E t \in FinalTurns :
       /\ pc = "done"
       /\ FirstFinal(t) = 2
       /\ Cardinality(CallsFor(t, 1)) = 1

\* -------------------------------------------------------------------- C10
\* The only request of content is for the tool name.
RequestsOnly(content, name) ==
    /\ Cardinality(ToolUses(content)) = 1
    /\ \A j \in ToolUses(content) : content[j].name = name

\* report_selector is the final answer tool; the first response requested
\* only navigate and the second only report_selector.
SelectorScenario ==
    /\ final_answer_tool = Some(ReportSelectorTool)
    /\ Len(messages) >= 4
    /\ RequestsOnly(messages[2].content, "navigate")
    /\ RequestsOnly(messages[4].content, "report_selector")

\* C10: in that scenario the catalog is navigate, get_selector and
\* report_selector, there are exactly 2 completion calls and 1 call_tool (for
\* navigate), the second request was sent the three messages task, assistant
\* request, user tool_result for navigate, and the run returns the input of
\* the report_selector request.
C10_SelectorScenario ==
    SelectorScenario =>
       LET nav == CHOOSE j \in ToolUses(messages[2].content) : TRUE
           rep == CHOOSE j \in ToolUses(messages[4].content) : TRUE
       IN  /\ [k \in 1..Len(tools) |-> tools[k].name]
                 = <<"navigate", "get_selector", "report_selector">>
           /\ Len(sent) = 2
           /\ Len(calls) = 1
           /\ calls[1].name = "navigate"
           /\ Len(sent[2].messages) = 3
           /\ sent[2].messages[1] = [role |-> "user", content |-> UserMessage]
           /\ sent[2].messages[2] = messages[2]
           /\ messages[2].role = "assistant"
           /\ sent[2].messages[3].role = "user"
           /\ Len(sent[2].messages[3].content) = 1
           /\ sent[2].messages[3].content[1].type = "tool_result"
           /\ sent[2].messages[3].content[1].tool_use_id = messages[2].content[nav].id
           /\ Len(messages) = 4
           /\ pc \in {"blocks", "returned", "finally", "done"}
           /\ Ended => ret = Returned(DictValue(messages[4].content[rep].input))

\* The scenario has run to its end and returned the selector.
C10_Witness ==
    /\ SelectorScenario
    /\ pc = "done"
    /\ ret = Returned(DictValue(SelectorInput))
    /\ caller_ret = Some(".footer-social")


\* -------------------------------------------------------------------- C11
\* run_agent_loop returned the input of a final answer request.
FinalAnswerEnded ==
    /\ ret.kind = "return"
    /\ ret.value.type = "dict"

\* The call-ids of the tool_use blocks of content, in order.
RECURSIVE RequestIds(_)
RequestIds(content) ==
    IF Len(content) = 0 THEN <<>>
    ELSE IF IsToolUse(content[1])
         THEN <<content[1].id>> \o RequestIds(Tail(content))
         ELSE RequestIds(Tail(content))

ResultIds(results) == [i \in 1..Len(results) |-> results[i].tool_use_id]

\* Message k of history h is an assistant message with tool requests.
HasRequests(h, k) ==
    /\ h[k].role = "assistant"
    /\ ToolUses(h[k].content) # {}

\* Message k of h is followed by a user message of tool_results, one per
\* request of message k, in request order.
Answered(h, k) ==
    /\ k < Len(h)
    /\ h[k + 1].role = "user"
    /\ \A i \in 1..Len(h[k + 1].content) : h[k + 1].content[i].type = "tool_result"
    /\ ResultIds(h[k + 1].content) = RequestIds(h[k].content)

\* C11: in every history sent with a completion request, every assistant
\* message with tool requests is followed at once by a user message holding
\* one tool_result per request, in request order; in the history itself the
\* only assistant message with requests and no results message is the last
\* one, while its turn is being processed or after the run has returned a
\* final answer: a run that ended any other way left none.
C11_RequestsAnswered ==
    /\ \A n \in 1..Len(sent) : \A k \in 1..Len(sent[n].messages) :
          HasRequests(sent[n].messages, k) => Answered(sent[n].messages, k)
    /\ \A k \in 1..Len(messages) :
          (HasRequests(messages, k) /\ ~Answered(messages, k)) =>
             /\ k = Len(messages)
             /\ InTurn \/ FinalAnswerEnded
    /\ (Ended /\ FinalAnswerEnded) =>
          (HasRequests(messages, Len(messages)) /\ ~Answered(messages, Len(messages)))

\* A second completion request was sent a history whose assistant message
\* holds two requests, the first of which raised.
C11_Witness ==
    /\ Len(sent) = 2
    /\ Cardinality(ToolUses(sent[2].messages[2].content)) = 2
    /\ Len(sent[2].messages[3].content) = 2
    /\ "is_error" \in DOMAIN sent[2].messages[3].content[1]

\* -------------------------------------------------------------------- C12
\* run_agent_loop returned the text of an end_turn response.
PlainAnswerEnded ==
    /\ ret.kind = "return"
    /\ response.stop_reason = "end_turn"

\* C12 as stated: no value returned as a plain answer or as a structured final
\* answer equals, in kind and value, the value returned on exhaustion of the
\* iteration budget.
C12_AsStated ==
    (PlainAnswerEnded \/ FinalAnswerEnded) =>
       ret.value # StrValue(MaxIterationsError)

\* -------------------------------------------------------------------- C13
\* C13 as stated: with a final answer tool the value returned is the input of
\* a request for that tool; without one it is the text of the model's final
\* (end_turn) response.
C13_AsStated ==
    ret.kind = "return" =>
       IF final_answer_tool # None
       THEN /\ ret.value.type = "dict"
            /\ \E j \in FinalRequests(response.content) :
                  ret.value.value = response.content[j].input
       ELSE /\ response.stop_reason = "end_turn"
            /\ ret.value = StrValue(TextUpTo(response.content, Len(response.content)))

\* -------------------------------------------------------------------- C14
\* The calls that were dispatched and have neither returned nor raised.
PendingCalls == {i \in 1..Len(calls) : calls[i].outcome = "pending"}

\* The completion requests that were sent and have not been answered.
PendingCompletions == IF pc = "await_completion" THEN 1 ELSE 0

\* results holds a tool_result for id.
ResultFor(results, id) ==
    \E r \in 1..Len(results) : results[r].tool_use_id = id

\* C14: at most one completion request or tool call is outstanding; an
\* outstanding tool call is the last one dispatched, so each call finishes
\* before the next begins; the calls of one turn are dispatched in the order
\* of the response's blocks; and every completion request after the first was
\* sent a history that holds the result of every call of the earlier turns.
C14_OneOutstanding ==
    /\ Cardinality(PendingCalls) + PendingCompletions <= 1
    /\ PendingCalls \subseteq {Len(calls)}
    /\ (PendingCalls # {}) <=> (pc = "await_tool")
    /\ \A i \in 1..Len(calls) : \A k \in 1..Len(calls) :
          i < k => \/ calls[i].turn < calls[k].turn
                   \/ /\ calls[i].turn = calls[k].turn
                      /\ calls[i].block < calls[k].block
    /\ \A n \in 1..Len(sent) : \A i \in 1..Len(calls) :
          calls[i].turn < n =>
             /\ calls[i].outcome # "pending"
             /\ ResultFor(sent[n].messages[2 * calls[i].turn + 1].content,
                          IdOfCall(i))

\* The second call of a turn is outstanding after the first one finished.
C14_Witness ==
    /\ Len(calls) = 2
    /\ calls[1].turn = calls[2].turn
    /\ calls[1].outcome # "pending"
    /\ calls[2].outcome = "pending"

\* -------------------------------------------------------------------- C15
IsPrefix(s, t) ==
    /\ Len(s) <= Len(t)
    /\ SubSeq(t, 1, Len(s)) = s

\* C15: the history only grows: every step leaves the messages it held in
\* place, unmodified, and at most appends to them; and a step that sends a
\* completion request sends the whole history as it is at that moment.
C15_AppendOnly ==
    [][/\ IsPrefix(messages, messages')
       /\ sent' # sent =>
             /\ Len(sent') = Len(sent) + 1
             /\ SubSeq(sent', 1, Len(sent)) = sent
             /\ sent'[Len(sent')].messages = messages
             /\ messages' = messages]_vars

\* Two requests were sent, the second with a history of three messages, and
\* two more messages were appended since.
C15_Witness ==
    /\ Len(sent) = 2
    /\ Len(sent[2].messages) = 3
    /\ Len(messages) = 5

\* -------------------------------------------------------------------- C16
\* C16: the iteration counter equals the number of completion requests sent
\* and never exceeds max_iterations; a step increases it by one when it sends
\* a completion request and leaves it alone otherwise; and the while loop is
\* left through its condition only with the counter at max_iterations.
C16_IterationCounter ==
    /\ [](/\ iteration = Len(sent)
          /\ iteration <= max_iterations)
    /\ [][/\ iteration' = IF Len(sent') = Len(sent) + 1
                          THEN iteration + 1 ELSE iteration
          /\ Len(sent') \in {Len(sent), Len(sent) + 1}
          /\ (pc = "loop" /\ pc' = "returned") =>
                iteration = max_iterations]_vars

\* The loop ran out of iterations after two completion requests.
C16_Witness ==
    /\ pc = "returned"
    /\ ret = Returned(AfterLoopValue)
    /\ response.stop_reason = "tool_use"
    /\ iteration = 2
    /\ max_iterations = 2

\* -------------------------------------------------------------------- C17
\* catalog is the server's tool list in Anthropic format, in the server's
\* order, followed by the final answer tool when one was given.
IsCatalogOf(catalog, fat) ==
    /\ Len(catalog) = Len(McpTools) + (IF fat # None THEN 1 ELSE 0)
    /\ \A i \in 1..Len(McpTools) :
          /\ catalog[i].name = McpTools[i].name
          /\ catalog[i].input_schema = McpTools[i].inputSchema
    /\ fat # None => catalog[Len(catalog)] = fat[1]

\* C17: the server's tool list is fetched at most once, and it has been
\* fetched once before any completion request is sent; the final answer tool,
\* when given, is the last entry of the catalog; and every completion request
\* is sent that same catalog.
C17_CatalogFetchedOnce ==
    /\ listCalls <= 1
    /\ sent # <<>> => listCalls = 1
    /\ \A n \in 1..Len(sent) :
          /\ sent[n].tools = tools
          /\ IsCatalogOf(sent[n].tools, final_answer_tool)

\* Two completion requests were sent with a final answer tool given.
C17_Witness ==
    /\ Len(sent) = 2
    /\ final_answer_tool # None
    /\ sent[2].tools[Len(sent[2].tools)].name = "report_selector"

\* -------------------------------------------------------------------- C19
\* History h starts with the user's task and its roles alternate.
Alternates(h) ==
    /\ h # <<>> => h[1] = [role |-> "user", content |-> UserMessage]
    /\ \A k \in 1..Len(h) :
          h[k].role = IF k % 2 = 1 THEN "user" ELSE "assistant"

\* C19: the history starts with the user message carrying the task and its
\* roles alternate user, assistant, user, ...; and every history sent with a
\* completion request is of that form, non-empty, and ends with a user message.
C19_RolesAlternate ==
    /\ Alternates(messages)
    /\ \A n \in 1..Len(sent) :
          /\ sent[n].messages # <<>>
          /\ Alternates(sent[n].messages)
          /\ sent[n].messages[Len(sent[n].messages)].role = "user"

\* A second request was sent and its tool_use response was appended.
C19_Witness ==
    /\ Len(sent) = 2
    /\ Len(sent[2].messages) = 3
    /\ Len(messages) = 4

\* -------------------------------------------------------------------- C20
\* No user message of the history holds a tool_result for id.
NeverInHistory(id) ==
    \A k \in 2..Len(messages) :
       messages[k].role = "user" => ~ResultFor(messages[k].content, id)

\* C20: once the loop has returned a final answer, the history ends with the
\* assistant message of that turn (message 2 * iteration), no user message of
\* results having been appended for the turn; and the results gathered in the
\* turn before the final answer request, one per call dispatched in it, are in
\* no message of the history.
C20_FinalAnswerLeavesNoResults ==
    FinalAnswerEnded =>
       /\ Len(messages) = 2 * iteration
       /\ messages[Len(messages)] = [role |-> "assistant",
                                     content |-> response.content]
       /\ \A r \in 1..Len(tool_results) :
             NeverInHistory(tool_results[r].tool_use_id)
       /\ \A i \in 1..Len(calls) :
             calls[i].turn = iteration =>
                /\ ResultFor(tool_results, IdOfCall(i))
                /\ NeverInHistory(IdOfCall(i))

\* The caller is done after a final answer that came behind a dispatched call
\* in the second turn.
C20_Witness ==
    /\ FinalAnswerEnded
    /\ pc = "done"
    /\ iteration = 2
    /\ tool_results # <<>>

\* -------------------------------------------------------------------- C18
\* The frame of invocation i, running or suspended.
View(i) == IF current = i THEN Frame ELSE other

\* The value an invocation returns is the one its own last response gives:
\* the text of an end_turn response, the input of the first request for its
\* final answer tool, the error string otherwise; and a tool_use response is
\* the last assistant message of its own history.
ResultAsAlone(f) ==
    f.ret.kind = "return" =>
       LET c == f.response.content
           finals == {j \in 1..Len(c) :
                        /\ f.final_answer_tool # None
                        /\ c[j].type = "tool_use"
                        /\ c[j].name = f.final_answer_tool[1].name}
       IN  /\ f.response.stop_reason = "tool_use" =>
                f.messages[2 * f.iteration].content = c
           /\ f.ret.value =
                IF f.response.stop_reason = "end_turn"
                THEN StrValue(TextUpTo(c, Len(c)))
                ELSE IF f.response.stop_reason = "tool_use" /\ finals # {}
                THEN DictValue(c[Min(finals)].input)
                ELSE AfterLoopValue

\* The requests an invocation made carried its own catalog and its own
\* history, and its counter counts them.
OwnRequests(f) ==
    /\ f.iteration = Len(f.sent)
    /\ f.iteration <= f.max_iterations
    /\ \A n \in 1..Len(f.sent) :
          /\ f.sent[n].tools = f.tools
          /\ IsPrefix(f.sent[n].messages, f.messages)

\* C18: with two invocations interleaved at their awaits, the frame of each
\* (history, catalog, iteration counter and the rest of its locals) is left
\* as it is by every step that is not a step of that invocation, the switch
\* included; and each invocation's requests and result are those its own
\* history and responses give, as in a run of its own.
C18_NoInterference ==
    /\ [](\A i \in 1..2 : ResultAsAlone(View(i)) /\ OwnRequests(View(i)))
    /\ [][\A i \in 1..2 :
             ~(current = i /\ current' = i) => View(i)' = View(i)]_vars

\* Both invocations have returned, one a structured value and one a string;
\* the running one got its second response after the other one got its
\* first, which came after its own first (call-ids are handed out in the
\* order of the responses).
C18_Witness ==
    /\ pc = "returned"
    /\ other.pc = "returned"
    /\ Len(messages) >= 4
    /\ Len(other.messages) >= 2
    /\ RequestIds(messages[2].content)[1]
          < RequestIds(other.messages[2].content)[1]
    /\ RequestIds(other.messages[2].content)[1]
          < RequestIds(messages[4].content)[1]
    /\ ret.kind = "return"
    /\ other.ret.kind = "return"
    /\ ret.value.type # other.ret.value.type

\* -------------------------------------------------------------------- C21
\* The caller is get_container_selector_with_mcp (it passes a final answer
\* tool) and run_agent_loop has returned to it.
SelectorCallerGotResponse ==
    /\ final_answer_tool # None
    /\ ret.kind = "return"
    /\ pc \in {"finally", "done"}

\* run_agent_loop returned a structured value that holds the key selector.
ReturnedSelector ==
    /\ ret.kind = "return"
    /\ ret.value.type = "dict"
    /\ ret.value.value.key = "selector"

====
